---- MODULE Spec2Model ----
(***************************************************************************)
(* Compliance tracker: the price-observation store, the stateful           *)
(* compliance checker (app/services/complianceChecker.server.ts), the scan *)
(* orchestrator (app/services/priceTracker.server.ts), the pure rule       *)
(* engine (app/services/complianceRules.server.ts, two revisions), the     *)
(* settings service (app/services/complianceSettings.server.ts) and the    *)
(* loader of the product detail page.                                      *)
(*                                                                         *)
(* Time is counted in ticks, TicksPerDay ticks to a day; Date arithmetic   *)
(* "ms / (1000*60*60*24)" becomes "ticks / TicksPerDay".  Every await of   *)
(* the asynchronous code is one atomic step of a process, so two requests  *)
(* interleave exactly at the awaits.  Rows of a table are kept in          *)
(* insertion order; the clock never runs backwards, so insertion order is  *)
(* the order by timestamp.                                                 *)
(***************************************************************************)
EXTENDS Integers, Sequences, FiniteSets, TLC

\* ------------------------------------------------------------------ bounds
TicksPerDay == 2
MaxHist == 3
MaxTicks == 2
MaxLen == 3

\* ------------------------------------------------------- program constants
LookbackDays == 30
maxSaleDurationDays == 56
minDaysBetweenSales == 28
SixMonthsDays == 183
EngineMaxDays == 110
EngineMinGapDays == 30

\* --------------------------------------------------------------- universes
NULL == -1
None == [none |-> TRUE]
\* the variant most requests are about, and the listing a scan gets when
\* the platform lists that variant alone
Variants == {"v1"}
VariantOrder == <<"v1">>
\* the variants of the shop's catalog, and the listing a scan gets when the
\* platform lists them all
CatalogVariants == {"v1", "v2"}
CatalogOrder == <<"v1", "v2">>
Procs == {1, 2}
\* what the shop may be asking for a variant when it is polled
Offers == {[price |-> 2, compareAtPrice |-> NULL],
           [price |-> 3, compareAtPrice |-> NULL],
           [price |-> 1, compareAtPrice |-> 2],
           [price |-> 1, compareAtPrice |-> 3]}
\* ShopSettings.countryRules, a comma-separated string of country codes, as
\* the sequence of its codes: the three choices of the settings page and
\* the empty string
CountryRules == {<<"NO">>, <<"NO", "SE">>, <<"EU">>, <<>>}
\* the clock advances by one tick or by one tick less than
\* maxSaleDurationDays + 1 days
TickSteps == {1, (maxSaleDurationDays + 1) * TicksPerDay - 1}

VARIABLES clock, ticks, priceHistory, productCompliance, shopSettings,
          pc, mode, todo, variant, cur, issues, keep, ret,
          engHistory, call, mvp,
          complianceRule

\* the store, the tables and the requests in flight
appVars == <<clock, ticks, priceHistory, productCompliance, shopSettings,
             pc, mode, todo, variant, cur, issues, keep, ret>>

\* the arguments and results of calls of the rule engine
engVars == <<engHistory, call, mvp>>

\* the rows of the ComplianceRule table, in insertion order
ruleVars == <<complianceRule>>

vars == <<appVars, engVars, ruleVars>>

\* ------------------------------------------------------------ date helpers
\* Math.floor(ms / msPerDay)
FloorDays(t) == t \div TicksPerDay

\* Math.ceil(ms / msPerDay)
CeilDays(t) == -((-t) \div TicksPerDay)

Min(S) == CHOOSE x \in S : \A y \in S : x <= y

SeqToSet(s) == {s[i] : i \in 1..Len(s)}

\* ------------------------------------------------- sale period detection
NoPeriod == [start |-> NULL, end |-> NULL]

\* the for-loop shared by checkSalesFrequency, findSalesPeriods and the
\* detail loader: flags[i] is the loop's isOnSale for h[i]
RECURSIVE SegmentPeriods(_, _, _, _, _)
SegmentPeriods(h, flags, i, periods, current) ==
  IF i > Len(h)
  THEN IF current # NoPeriod THEN Append(periods, current) ELSE periods
  ELSE IF flags[i] /\ current = NoPeriod
       THEN SegmentPeriods(h, flags, i + 1, periods,
                           [start |-> h[i].timestamp, end |-> h[i].timestamp])
       ELSE IF flags[i] /\ current # NoPeriod
            THEN SegmentPeriods(h, flags, i + 1, periods,
                                [current EXCEPT !.end = h[i].timestamp])
            ELSE IF ~flags[i] /\ current # NoPeriod
                 THEN SegmentPeriods(h, flags, i + 1, Append(periods, current), NoPeriod)
                 ELSE SegmentPeriods(h, flags, i + 1, periods, current)

\* entry.compareAtPrice && entry.price < entry.compareAtPrice
TruthyOnSale(e) == e.compareAtPrice # NULL /\ e.compareAtPrice # 0 /\ e.price < e.compareAtPrice

\* StrictOnSale with >= in place of >
NonStrictOnSale(e) == e.compareAtPrice # NULL /\ e.compareAtPrice >= e.price

\* entry.compareAtPrice !== null && entry.compareAtPrice > entry.price
StrictOnSale(e) == e.compareAtPrice # NULL /\ e.compareAtPrice > e.price

\* ------------------------------------------------ complianceChecker rules
\* prisma.priceHistory.findMany({ timestamp: { gte: since } }), ascending
FindManySince(h, since) == SelectSeq(h, LAMBDA e : e.timestamp >= since)

Compliant == [isCompliant |-> TRUE, message |-> [text |-> "ok"]]

checkNorwegianReferencePrice(h, now, compareAtPrice) ==
  IF compareAtPrice = NULL \/ compareAtPrice = 0
  THEN Compliant
  ELSE LET recentPrices == FindManySince(h, now - LookbackDays * TicksPerDay)
           regularPrices == SelectSeq(recentPrices,
                              LAMBDA e : e.compareAtPrice = NULL \/ e.compareAtPrice = 0
                                         \/ e.price >= e.compareAtPrice)
       IN IF Len(recentPrices) = 0
          THEN [isCompliant |-> FALSE, message |-> [text |-> "no_history"]]
          ELSE IF Len(regularPrices) = 0
          THEN [isCompliant |-> FALSE, message |-> [text |-> "on_sale_entire_period"]]
          ELSE LET lowestRegularPrice == Min({e.price : e \in SeqToSet(regularPrices)})
               IN IF compareAtPrice < lowestRegularPrice
                  THEN [isCompliant |-> FALSE,
                        message |-> [text |-> "is_lower_than", ref |-> compareAtPrice,
                                     lowest |-> lowestRegularPrice]]
                  ELSE IF compareAtPrice > lowestRegularPrice
                  THEN [isCompliant |-> FALSE,
                        message |-> [text |-> "must_be_the_lowest", ref |-> compareAtPrice,
                                     lowest |-> lowestRegularPrice]]
                  ELSE Compliant

\* compliance is the row read by findUnique, or None
checkSalesDuration(compliance, now) ==
  IF compliance = None \/ compliance.saleStartDate = NULL
  THEN Compliant
  ELSE LET saleDurationDays == FloorDays(now - compliance.saleStartDate)
       IN IF saleDurationDays > maxSaleDurationDays
          THEN [isCompliant |-> FALSE,
                message |-> [text |-> "exceeds", days |-> saleDurationDays,
                             max |-> maxSaleDurationDays]]
          ELSE Compliant

CheckerPeriods(h) ==
  SegmentPeriods(h, [i \in 1..Len(h) |-> TruthyOnSale(h[i])], 1, <<>>, NoPeriod)

\* index of the first adjacent pair of periods closer than minDays, 0 if none
RECURSIVE FirstGapViolation(_, _, _)
FirstGapViolation(gaps, minDays, i) ==
  IF i > Len(gaps) THEN 0
  ELSE IF gaps[i] < minDays THEN i
  ELSE FirstGapViolation(gaps, minDays, i + 1)

CheckerGaps(periods) ==
  [i \in 1..(Len(periods) - 1) |-> FloorDays(periods[i + 1].start - periods[i].end)]

checkSalesFrequency(h, now) ==
  LET history == FindManySince(h, now - SixMonthsDays * TicksPerDay)
      salesPeriods == CheckerPeriods(history)
  IN IF Len(history) < 2 THEN Compliant
     ELSE IF Len(salesPeriods) <= 1 THEN Compliant
     ELSE LET gaps == CheckerGaps(salesPeriods)
              k == FirstGapViolation(gaps, minDaysBetweenSales, 1)
          IN IF k # 0
             THEN [isCompliant |-> FALSE,
                   message |-> [text |-> "only", days |-> gaps[k],
                                min |-> minDaysBetweenSales]]
             ELSE Compliant

\* ------------------------------------------------------------- the tables
Row(v) == CHOOSE r \in productCompliance : r.variantId = v

\* prisma.productCompliance.findUnique
FindUnique(v) ==
  IF \E r \in productCompliance : r.variantId = v THEN Row(v) ELSE None

\* issues.length > 0 ? JSON.stringify(issues) : null
StoredIssues(is) == IF Len(is) > 0 THEN [json |-> is] ELSE None

\* UpsertCompliance without the unique key: every call inserts a row
UpsertAlwaysInserts(table, v, update, create) ==
  table \cup {[variantId |-> v,
               referencePrice |-> create.referencePrice,
               isOnSale |-> create.isOnSale,
               saleStartDate |-> create.saleStartDate,
               isCompliant |-> create.isCompliant,
               issues |-> create.issues]}

\* prisma.productCompliance.upsert: one statement, keyed by the unique
\* (shop, productId, variantId)
UpsertCompliance(table, v, update, create) ==
  IF \E r \in table : r.variantId = v
  THEN {IF r.variantId = v
        THEN [variantId |-> v,
              referencePrice |-> update.referencePrice,
              isOnSale |-> update.isOnSale,
              saleStartDate |-> update.saleStartDate,
              isCompliant |-> update.isCompliant,
              issues |-> update.issues]
        ELSE r : r \in table}
  ELSE table \cup {[variantId |-> v,
                    referencePrice |-> create.referencePrice,
                    isOnSale |-> create.isOnSale,
                    saleStartDate |-> create.saleStartDate,
                    isCompliant |-> create.isCompliant,
                    issues |-> create.issues]}

Init ==
  /\ clock = 0
  /\ ticks = 0
  /\ priceHistory = [v \in CatalogVariants |-> <<>>]
  /\ productCompliance = {}
  /\ shopSettings = None
  /\ pc = [p \in Procs |-> "idle"]
  /\ mode = [p \in Procs |-> "none"]
  /\ todo = [p \in Procs |-> <<>>]
  /\ variant = [p \in Procs |-> "v1"]
  /\ cur = [p \in Procs |-> None]
  /\ issues = [p \in Procs |-> <<>>]
  /\ keep = [p \in Procs |-> None]
  /\ ret = [p \in Procs |-> None]
  /\ engHistory = <<>>
  /\ call = None
  /\ mvp = None
  /\ complianceRule = <<>>

\* ---------------------------------------------------------- environment
\* time passes between requests (a request is served within one tick)
Tick(d) ==
  /\ ticks < MaxTicks
  /\ \A p \in Procs : pc[p] = "idle"
  /\ clock' = clock + d
  /\ ticks' = ticks + 1
  /\ UNCHANGED <<priceHistory, productCompliance, shopSettings,
                 pc, mode, todo, variant, cur, issues, keep, ret>>
  /\ UNCHANGED <<engVars, ruleVars>>

\* updateShopSettings(shop, { countryRules })
UpdateShopSettings(c) ==
  /\ shopSettings' = IF shopSettings = None
                     THEN [countryRules |-> c, lastScan |-> NULL]
                     ELSE [shopSettings EXCEPT !.countryRules = c]
  /\ \A p \in Procs : pc[p] = "idle"
  /\ UNCHANGED <<clock, ticks, priceHistory, productCompliance,
                 pc, mode, todo, variant, cur, issues, keep, ret>>
  /\ UNCHANGED <<engVars, ruleVars>>

\* ------------------------------------------------------ priceTracker
HasRoom(v) == Len(priceHistory[v]) < MaxHist

\* trackPricesForShop up to the product loop; listing is the sequence of
\* variants in the platform's response
StartScanOf(p, listing) ==
  /\ pc[p] = "idle"
  /\ \A v \in SeqToSet(listing) : HasRoom(v)
  /\ mode' = [mode EXCEPT ![p] = "scan"]
  /\ todo' = [todo EXCEPT ![p] = listing]
  /\ pc' = [pc EXCEPT ![p] = "create"]
  /\ UNCHANGED <<clock, ticks, priceHistory, productCompliance, shopSettings,
                 variant, cur, issues, keep, ret>>
  /\ UNCHANGED <<engVars, ruleVars>>

StartScan(p) == StartScanOf(p, VariantOrder)

\* trackProductPrice up to the create
StartTrack(p, v) ==
  /\ pc[p] = "idle"
  /\ HasRoom(v)
  /\ mode' = [mode EXCEPT ![p] = "track"]
  /\ todo' = [todo EXCEPT ![p] = <<v>>]
  /\ pc' = [pc EXCEPT ![p] = "create"]
  /\ UNCHANGED <<clock, ticks, priceHistory, productCompliance, shopSettings,
                 variant, cur, issues, keep, ret>>
  /\ UNCHANGED <<engVars, ruleVars>>

\* CreatePriceHistory that keeps only the latest observation of a variant
CreateReplacesHistory(p, offer) ==
  /\ pc[p] = "create"
  /\ HasRoom(Head(todo[p]))
  /\ priceHistory' = [priceHistory EXCEPT ![Head(todo[p])] =
        <<[timestamp |-> clock, price |-> offer.price,
           compareAtPrice |-> offer.compareAtPrice]>>]
  /\ variant' = [variant EXCEPT ![p] = Head(todo[p])]
  /\ pc' = [pc EXCEPT ![p] = "findHistory"]
  /\ UNCHANGED <<clock, ticks, productCompliance, shopSettings,
                 mode, todo, cur, issues, keep, ret>>
  /\ UNCHANGED <<engVars, ruleVars>>

\* prisma.priceHistory.create with timestamp @default(now()), then the
\* call of checkProductCompliance
CreatePriceHistory(p, offer) ==
  /\ pc[p] = "create"
  /\ HasRoom(Head(todo[p]))
  /\ priceHistory' = [priceHistory EXCEPT ![Head(todo[p])] =
        Append(@, [timestamp |-> clock, price |-> offer.price,
                   compareAtPrice |-> offer.compareAtPrice])]
  /\ variant' = [variant EXCEPT ![p] = Head(todo[p])]
  /\ pc' = [pc EXCEPT ![p] = "findHistory"]
  /\ UNCHANGED <<clock, ticks, productCompliance, shopSettings,
                 mode, todo, cur, issues, keep, ret>>
  /\ UNCHANGED <<engVars, ruleVars>>

\* AfterCheck of a scan that gives up when an evaluation has failed
AfterCheckStopsOnFailure(p) ==
  IF mode[p] = "scan" /\ ret[p].success
  THEN IF Len(todo[p]) > 1 THEN "create" ELSE "lastScan"
  ELSE "idle"

\* where control goes when checkProductCompliance has returned to p
AfterCheck(p) ==
  IF mode[p] = "scan"
  THEN IF Len(todo[p]) > 1 THEN "create" ELSE "lastScan"
  ELSE "idle"

\* checkProductCompliance returns result to its caller
Returned(p, result) ==
  /\ ret' = [ret EXCEPT ![p] = result]
  /\ pc' = [pc EXCEPT ![p] = "returned"]
  /\ UNCHANGED <<mode, todo>>

\* the caller resumes after "await checkProductCompliance(...)"; it does
\* not look at the result
Resume(p) ==
  /\ pc[p] = "returned"
  /\ pc' = [pc EXCEPT ![p] = AfterCheck(p)]
  /\ todo' = [todo EXCEPT ![p] = IF @ = <<>> THEN <<>> ELSE Tail(@)]
  /\ mode' = [mode EXCEPT ![p] = IF AfterCheck(p) = "idle" THEN "none" ELSE @]
  /\ ret' = [ret EXCEPT ![p] = None]
  /\ cur' = [cur EXCEPT ![p] = None]
  /\ issues' = [issues EXCEPT ![p] = <<>>]
  /\ keep' = [keep EXCEPT ![p] = None]
  /\ UNCHANGED <<clock, ticks, priceHistory, productCompliance, shopSettings, variant>>
  /\ UNCHANGED <<engVars, ruleVars>>

\* the shopSettings.upsert that ends trackPricesForShop
UpdateLastScan(p) ==
  /\ pc[p] = "lastScan"
  /\ shopSettings' = IF shopSettings = None
                     THEN [countryRules |-> <<"NO">>, lastScan |-> clock]
                     ELSE [shopSettings EXCEPT !.lastScan = clock]
  /\ pc' = [pc EXCEPT ![p] = "idle"]
  /\ mode' = [mode EXCEPT ![p] = "none"]
  /\ UNCHANGED <<clock, ticks, priceHistory, productCompliance,
                 todo, variant, cur, issues, keep, ret>>
  /\ UNCHANGED <<engVars, ruleVars>>

\* --------------------------------------------- checkProductCompliance
\* a direct call (re-check of one variant)
StartCheck(p, v) ==
  /\ pc[p] = "idle"
  /\ mode' = [mode EXCEPT ![p] = "check"]
  /\ variant' = [variant EXCEPT ![p] = v]
  /\ pc' = [pc EXCEPT ![p] = "findHistory"]
  /\ UNCHANGED <<clock, ticks, priceHistory, productCompliance, shopSettings,
                 todo, cur, issues, keep, ret>>
  /\ UNCHANGED <<engVars, ruleVars>>

\* FindHistory that orders the observations by ascending timestamp and so
\* takes the oldest one as the current entry
FindHistoryOldestFirst(p) ==
  /\ pc[p] = "findHistory"
  /\ LET h == priceHistory[variant[p]]
     IN IF Len(h) = 0
        THEN /\ Returned(p, [success |-> FALSE, error |-> "No price history found"])
             /\ UNCHANGED <<cur, issues, keep>>
        ELSE LET currentEntry == h[1]
             IN /\ cur' = [cur EXCEPT ![p] =
                             [price |-> currentEntry.price,
                              compareAtPrice |-> currentEntry.compareAtPrice,
                              isOnSale |-> StrictOnSale(currentEntry),
                              isCompliant |-> TRUE]]
                /\ issues' = [issues EXCEPT ![p] = <<>>]
                /\ keep' = [keep EXCEPT ![p] = None]
                /\ pc' = [pc EXCEPT ![p] =
                            IF StrictOnSale(currentEntry) THEN "findSettings" ELSE "upsert"]
                /\ UNCHANGED <<mode, todo, ret>>
  /\ UNCHANGED <<clock, ticks, priceHistory, productCompliance, shopSettings, variant>>
  /\ UNCHANGED <<engVars, ruleVars>>

\* FindHistory that goes on to the rules whether or not the latest
\* observation is on sale
FindHistoryRunsRules(p) ==
  /\ pc[p] = "findHistory"
  /\ LET h == priceHistory[variant[p]]
     IN IF Len(h) = 0
        THEN /\ Returned(p, [success |-> FALSE, error |-> "No price history found"])
             /\ UNCHANGED <<cur, issues, keep>>
        ELSE LET currentEntry == h[Len(h)]
             IN /\ cur' = [cur EXCEPT ![p] =
                             [price |-> currentEntry.price,
                              compareAtPrice |-> currentEntry.compareAtPrice,
                              isOnSale |-> StrictOnSale(currentEntry),
                              isCompliant |-> TRUE]]
                /\ issues' = [issues EXCEPT ![p] = <<>>]
                /\ keep' = [keep EXCEPT ![p] = None]
                /\ pc' = [pc EXCEPT ![p] = "findSettings"]
                /\ UNCHANGED <<mode, todo, ret>>
  /\ UNCHANGED <<clock, ticks, priceHistory, productCompliance, shopSettings, variant>>
  /\ UNCHANGED <<engVars, ruleVars>>

\* findMany orderBy desc, the empty-history return, currentEntry, isOnSale
FindHistory(p) ==
  /\ pc[p] = "findHistory"
  /\ LET h == priceHistory[variant[p]]
     IN IF Len(h) = 0
        THEN /\ Returned(p, [success |-> FALSE, error |-> "No price history found"])
             /\ UNCHANGED <<cur, issues, keep>>
        ELSE LET currentEntry == h[Len(h)]
             IN /\ cur' = [cur EXCEPT ![p] =
                             [price |-> currentEntry.price,
                              compareAtPrice |-> currentEntry.compareAtPrice,
                              isOnSale |-> StrictOnSale(currentEntry),
                              isCompliant |-> TRUE]]
                /\ issues' = [issues EXCEPT ![p] = <<>>]
                /\ keep' = [keep EXCEPT ![p] = None]
                /\ pc' = [pc EXCEPT ![p] =
                            IF StrictOnSale(currentEntry) THEN "findSettings" ELSE "upsert"]
                /\ UNCHANGED <<mode, todo, ret>>
  /\ UNCHANGED <<clock, ticks, priceHistory, productCompliance, shopSettings, variant>>
  /\ UNCHANGED <<engVars, ruleVars>>

\* AppliesNorwegianRules that ignores the shop's settings
AppliesRulesAlways(settings) == TRUE

\* shopSettings?.countryRules || 'NO', countryRules.includes('NO'); the
\* empty string is falsy, and among two-letter codes separated by commas
\* the substring 'NO' occurs exactly when the code NO is listed
AppliesNorwegianRules(settings) ==
  LET countryRules == IF settings = None \/ settings.countryRules = <<>>
                      THEN <<"NO">>
                      ELSE settings.countryRules
  IN "NO" \in SeqToSet(countryRules)

FindSettings(p) ==
  /\ pc[p] = "findSettings"
  /\ pc' = [pc EXCEPT ![p] =
              IF AppliesNorwegianRules(shopSettings) THEN "referencePrice" ELSE "findExisting"]
  /\ UNCHANGED <<clock, ticks, priceHistory, productCompliance, shopSettings,
                 mode, todo, variant, cur, issues, keep, ret>>
  /\ UNCHANGED <<engVars, ruleVars>>

\* Collect without "isCompliant = false"
CollectKeepsFlag(p, rule, result, next) ==
  /\ issues' = [issues EXCEPT ![p] =
        IF result.isCompliant THEN @
        ELSE Append(@, [rule |-> rule, message |-> result.message])]
  /\ pc' = [pc EXCEPT ![p] = next]
  /\ UNCHANGED <<clock, ticks, priceHistory, productCompliance, shopSettings,
                 mode, todo, variant, cur, keep, ret>>
  /\ UNCHANGED <<engVars, ruleVars>>

\* Collect that leaves the rule sequence at the first failing rule
CollectShortCircuit(p, rule, result, next) ==
  /\ cur' = [cur EXCEPT ![p].isCompliant = IF result.isCompliant THEN @ ELSE FALSE]
  /\ issues' = [issues EXCEPT ![p] =
        IF result.isCompliant THEN @
        ELSE Append(@, [rule |-> rule, message |-> result.message])]
  /\ pc' = [pc EXCEPT ![p] = IF result.isCompliant THEN next ELSE "findExisting"]
  /\ UNCHANGED <<clock, ticks, priceHistory, productCompliance, shopSettings,
                 mode, todo, variant, keep, ret>>
  /\ UNCHANGED <<engVars, ruleVars>>

\* if (!result.isCompliant) { isCompliant = false; issues.push({rule, message}) }
Collect(p, rule, result, next) ==
  /\ cur' = [cur EXCEPT ![p].isCompliant = IF result.isCompliant THEN @ ELSE FALSE]
  /\ issues' = [issues EXCEPT ![p] =
        IF result.isCompliant THEN @
        ELSE Append(@, [rule |-> rule, message |-> result.message])]
  /\ pc' = [pc EXCEPT ![p] = next]
  /\ UNCHANGED <<clock, ticks, priceHistory, productCompliance, shopSettings,
                 mode, todo, variant, keep, ret>>
  /\ UNCHANGED <<engVars, ruleVars>>

RunReferencePrice(p) ==
  /\ pc[p] = "referencePrice"
  /\ Collect(p, "førpris",
             checkNorwegianReferencePrice(priceHistory[variant[p]], clock,
                                          cur[p].compareAtPrice),
             "duration")

RunSalesDuration(p) ==
  /\ pc[p] = "duration"
  /\ Collect(p, "salesDuration",
             checkSalesDuration(FindUnique(variant[p]), clock), "frequency")

RunSalesFrequency(p) ==
  /\ pc[p] = "frequency"
  /\ Collect(p, "salesFrequency",
             checkSalesFrequency(priceHistory[variant[p]], clock), "findExisting")

\* the findUnique nested in the upsert's arguments (evaluated only when
\* isOnSale): existing?.isOnSale ? existing.saleStartDate : new Date(),
\* and the create branch's new Date()
\* KeptSaleStart that restarts the sale on every evaluation
KeptSaleStartReset(existing, now) == now

\* KeptSaleStart that keeps the stored saleStartDate of any existing record
KeptSaleStartOfRow(existing, now) ==
  IF existing # None THEN existing.saleStartDate ELSE now

KeptSaleStart(existing, now) ==
  IF existing # None /\ existing.isOnSale THEN existing.saleStartDate ELSE now

FindExisting(p) ==
  /\ pc[p] = "findExisting"
  /\ keep' = [keep EXCEPT ![p] =
        [update |-> KeptSaleStart(FindUnique(variant[p]), clock), create |-> clock]]
  /\ pc' = [pc EXCEPT ![p] = "upsert"]
  /\ UNCHANGED <<clock, ticks, priceHistory, productCompliance, shopSettings,
                 mode, todo, variant, cur, issues, ret>>
  /\ UNCHANGED <<engVars, ruleVars>>

UpdateData(p) ==
  [referencePrice |-> cur[p].compareAtPrice,
   isOnSale |-> cur[p].isOnSale,
   saleStartDate |-> IF cur[p].isOnSale THEN keep[p].update ELSE NULL,
   isCompliant |-> cur[p].isCompliant,
   issues |-> StoredIssues(issues[p])]

CreateData(p) ==
  [referencePrice |-> cur[p].compareAtPrice,
   isOnSale |-> cur[p].isOnSale,
   saleStartDate |-> IF cur[p].isOnSale THEN keep[p].create ELSE NULL,
   isCompliant |-> cur[p].isCompliant,
   issues |-> StoredIssues(issues[p])]

Upsert(p) ==
  /\ pc[p] = "upsert"
  /\ productCompliance' =
        UpsertCompliance(productCompliance, variant[p], UpdateData(p), CreateData(p))
  /\ Returned(p, [success |-> TRUE, isCompliant |-> cur[p].isCompliant,
                  issues |-> issues[p], isOnSale |-> cur[p].isOnSale])
  /\ UNCHANGED <<clock, ticks, priceHistory, shopSettings, variant, cur, issues, keep>>
  /\ UNCHANGED <<engVars, ruleVars>>

CheckStages == {"findHistory", "findSettings", "referencePrice", "duration",
                "frequency", "findExisting", "upsert"}

\* CheckFails whose rejected upsert has already written its row
CheckFailsAfterWrite(p) ==
  /\ pc[p] \in CheckStages
  /\ productCompliance' =
        IF pc[p] = "upsert"
        THEN UpsertCompliance(productCompliance, variant[p], UpdateData(p), CreateData(p))
        ELSE productCompliance
  /\ Returned(p, [success |-> FALSE, error |-> "exception"])
  /\ UNCHANGED <<clock, ticks, priceHistory, shopSettings,
                 variant, cur, issues, keep>>
  /\ UNCHANGED <<engVars, ruleVars>>

\* a prisma call rejects: the catch block of checkProductCompliance
CheckFails(p) ==
  /\ pc[p] \in CheckStages
  /\ Returned(p, [success |-> FALSE, error |-> "exception"])
  /\ UNCHANGED <<clock, ticks, priceHistory, productCompliance, shopSettings,
                 variant, cur, issues, keep>>
  /\ UNCHANGED <<engVars, ruleVars>>

\* the steps of an evaluation once checkProductCompliance has been entered,
\* and the caller's resumption
EvaluationStep(p) ==
  \/ FindHistory(p)
  \/ FindSettings(p)
  \/ RunReferencePrice(p)
  \/ RunSalesDuration(p)
  \/ RunSalesFrequency(p)
  \/ FindExisting(p)
  \/ Upsert(p)
  \/ Resume(p)

\* the steps of checkProductCompliance, called directly or by a tracker
CheckStep(p) ==
  \/ \E v \in Variants : StartCheck(p, v)
  \/ EvaluationStep(p)

\* every step of a request but the poll of the shop's current offer
RequestStep(p) ==
  \/ StartScan(p)
  \/ \E v \in Variants : StartTrack(p, v)
  \/ CheckStep(p)
  \/ UpdateLastScan(p)

ProcStep(p) ==
  \/ RequestStep(p)
  \/ \E offer \in Offers : CreatePriceHistory(p, offer)

EnvStep == \E d \in TickSteps : Tick(d)

\* requests served one after another, every database call succeeding
Next ==
  \/ ProcStep(1)
  \/ EnvStep

Spec == Init /\ [][Next]_vars

\* the same, with database calls of an evaluation that may reject
NextFaults ==
  \/ Next
  \/ CheckFails(1)

SpecFaults == Init /\ [][NextFaults]_vars

\* a shop that also lists a variant with compareAtPrice equal to its price
TieOffers == {[price |-> 2, compareAtPrice |-> NULL],
              [price |-> 1, compareAtPrice |-> 2],
              [price |-> 2, compareAtPrice |-> 2]}

NextTies ==
  \/ RequestStep(1)
  \/ \E offer \in TieOffers : CreatePriceHistory(1, offer)
  \/ EnvStep

SpecTies == Init /\ [][NextTies]_vars

\* a shop that lists a variant at price 0
FreeOffers == {[price |-> 2, compareAtPrice |-> NULL],
               [price |-> 0, compareAtPrice |-> NULL],
               [price |-> 0, compareAtPrice |-> 2]}

NextFree ==
  \/ RequestStep(1)
  \/ \E offer \in FreeOffers : CreatePriceHistory(1, offer)
  \/ EnvStep

SpecFree == Init /\ [][NextFree]_vars

\* two requests in flight at once, a poll of one variant (or a re-check)
\* and a re-check: their awaits interleave
OverlapOffers == {[price |-> 2, compareAtPrice |-> NULL],
                  [price |-> 1, compareAtPrice |-> 2]}

NextOverlap ==
  \/ \E v \in Variants : StartTrack(1, v)
  \/ \E offer \in OverlapOffers : CreatePriceHistory(1, offer)
  \/ CheckStep(1)
  \/ CheckStep(2)
  \/ EnvStep

SpecOverlap == Init /\ [][NextOverlap]_vars

\* requests served one after another in a shop with two offers whose
\* settings are edited between requests
NextSettings ==
  \/ RequestStep(1)
  \/ \E offer \in OverlapOffers : CreatePriceHistory(1, offer)
  \/ \E c \in CountryRules : UpdateShopSettings(c)
  \/ EnvStep

SpecSettings == Init /\ [][NextSettings]_vars

\* ------------------------------------------- complianceRules (rule engine)
\* JavaScript falsiness of a number | null
Falsy(x) == x = NULL \/ x = 0

\* [...priceHistory].sort((a, b) => a.timestamp - b.timestamp): stable
RECURSIVE InsertByTimestamp(_, _)
InsertByTimestamp(sorted, e) ==
  IF sorted = <<>> THEN <<e>>
  ELSE IF sorted[Len(sorted)].timestamp <= e.timestamp THEN Append(sorted, e)
  ELSE Append(InsertByTimestamp(SubSeq(sorted, 1, Len(sorted) - 1), e),
              sorted[Len(sorted)])

RECURSIVE SortByTimestamp(_)
SortByTimestamp(h) ==
  IF h = <<>> THEN <<>>
  ELSE InsertByTimestamp(SortByTimestamp(SubSeq(h, 1, Len(h) - 1)), h[Len(h)])

\* entry.compareAtPrice && entry.compareAtPrice > entry.price
EngineOnSale(e) == ~Falsy(e.compareAtPrice) /\ e.compareAtPrice > e.price

\* first i >= 2 at which the sale starts (previous entry regular, this one
\* on sale), 0 if there is none
RECURSIVE FirstSaleTransition(_, _)
FirstSaleTransition(sorted, i) ==
  IF i > Len(sorted) THEN 0
  ELSE IF (Falsy(sorted[i - 1].compareAtPrice)
           \/ sorted[i - 1].compareAtPrice <= sorted[i - 1].price)
          /\ EngineOnSale(sorted[i])
       THEN i
       ELSE FirstSaleTransition(sorted, i + 1)

RECURSIVE FirstOnSale(_, _)
FirstOnSale(sorted, i) ==
  IF i > Len(sorted) THEN 0
  ELSE IF EngineOnSale(sorted[i]) THEN i
  ELSE FirstOnSale(sorted, i + 1)

findSaleStartDate(history) ==
  IF Len(history) < 2 THEN NULL
  ELSE LET sortedHistory == SortByTimestamp(history)
           t == FirstSaleTransition(sortedHistory, 2)
           f == FirstOnSale(sortedHistory, 1)
       IN IF t # 0 THEN sortedHistory[t].timestamp
          ELSE IF f # 0 THEN sortedHistory[f].timestamp
          ELSE NULL

\* product.saleStartDate || this.findSaleStartDate(priceHistory)
EngineSaleStart(product, history) ==
  IF product.saleStartDate # NULL THEN product.saleStartDate
  ELSE findSaleStartDate(history)

EngineCompliant == [isCompliant |-> TRUE, issues |-> <<>>]

EngineSkips(product) == ~product.isOnSale \/ Falsy(product.compareAtPrice)

NorwegianForprisRule(product, history) ==
  IF EngineSkips(product) THEN EngineCompliant
  ELSE LET saleStartDate == EngineSaleStart(product, history)
           thirtyDaysBefore == saleStartDate - LookbackDays * TicksPerDay
           preSalePrices == {history[i].price : i \in
                               {j \in 1..Len(history) :
                                  /\ history[j].timestamp < saleStartDate
                                  /\ history[j].timestamp >= thirtyDaysBefore}}
       IN IF saleStartDate = NULL THEN EngineCompliant
          ELSE IF preSalePrices = {} THEN EngineCompliant
          ELSE LET lowestPrice == Min(preSalePrices)
               IN IF product.compareAtPrice > lowestPrice
                  THEN [isCompliant |-> FALSE,
                        issues |-> <<[rule |-> "førpris",
                                      message |-> [text |-> "is_higher_than",
                                                   ref |-> product.compareAtPrice,
                                                   lowest |-> lowestPrice]]>>]
                  ELSE EngineCompliant

SaleDurationRule(product, history, now) ==
  IF EngineSkips(product) THEN EngineCompliant
  ELSE LET saleStartDate == EngineSaleStart(product, history)
           saleDurationDays == CeilDays(now - saleStartDate)
       IN IF saleStartDate = NULL THEN EngineCompliant
          ELSE IF saleDurationDays > EngineMaxDays
          THEN [isCompliant |-> FALSE,
                issues |-> <<[rule |-> "saleDuration",
                              message |-> [text |-> "exceeds",
                                           days |-> saleDurationDays,
                                           max |-> EngineMaxDays]]>>]
          ELSE EngineCompliant

findSalesPeriods(history) ==
  IF Len(history) < 2 THEN <<>>
  ELSE LET sortedHistory == SortByTimestamp(history)
       IN SegmentPeriods(sortedHistory,
                         [i \in 1..Len(sortedHistory) |-> EngineOnSale(sortedHistory[i])],
                         1, <<>>, NoPeriod)

\* salesPeriods.sort((a, b) => a.start - b.start): stable
RECURSIVE InsertByStart(_, _)
InsertByStart(sorted, e) ==
  IF sorted = <<>> THEN <<e>>
  ELSE IF sorted[Len(sorted)].start <= e.start THEN Append(sorted, e)
  ELSE Append(InsertByStart(SubSeq(sorted, 1, Len(sorted) - 1), e),
              sorted[Len(sorted)])

RECURSIVE SortByStart(_)
SortByStart(periods) ==
  IF periods = <<>> THEN <<>>
  ELSE InsertByStart(SortByStart(SubSeq(periods, 1, Len(periods) - 1)),
                     periods[Len(periods)])

EngineGaps(periods) ==
  [i \in 1..(Len(periods) - 1) |-> CeilDays(periods[i + 1].start - periods[i].end)]

SalesFrequencyRule(product, history) ==
  IF EngineSkips(product) THEN EngineCompliant
  ELSE LET found == findSalesPeriods(history)
           salesPeriods == SortByStart(found)
           gaps == EngineGaps(salesPeriods)
           k == FirstGapViolation(gaps, EngineMinGapDays, 1)
       IN IF Len(found) <= 1 THEN EngineCompliant
          ELSE IF k # 0
          THEN [isCompliant |-> FALSE,
                issues |-> <<[rule |-> "saleFrequency",
                              message |-> [text |-> "only", days |-> gaps[k]]]>>]
          ELSE EngineCompliant

\* for (const rule of rules) { ...; result.issues.push(...ruleResult.issues) }
RECURSIVE RunRules(_, _, _)
RunRules(ruleResults, i, result) ==
  IF i > Len(ruleResults) THEN result
  ELSE RunRules(ruleResults, i + 1,
                IF ~ruleResults[i].isCompliant
                THEN [isCompliant |-> FALSE,
                      issues |-> result.issues \o ruleResults[i].issues]
                ELSE result)

EngineCheckProductCompliance(product, history, now) ==
  RunRules(<<NorwegianForprisRule(product, history),
             SaleDurationRule(product, history, now),
             SalesFrequencyRule(product, history)>>,
           1, EngineCompliant)

\* the instants at which the engine's callers have observations, and at
\* which they call it
EngInstants == {0, 1, 2, LookbackDays * TicksPerDay, LookbackDays * TicksPerDay + 1}
EngNows == {LookbackDays * TicksPerDay + 1, EngineMaxDays * TicksPerDay + 1,
            (EngineMaxDays + 1) * TicksPerDay}
EngStarts == {NULL, 0, LookbackDays * TicksPerDay}

\* ProductData as a caller may pass it
EngProducts ==
  {[price |-> o.price, compareAtPrice |-> o.compareAtPrice,
    isOnSale |-> b, saleStartDate |-> t] :
      o \in Offers, b \in BOOLEAN, t \in EngStarts}

\* the caller adds a PriceHistoryEntry to the array it will pass
EngineAppend(offer, t) ==
  /\ call = None
  /\ Len(engHistory) < MaxLen
  /\ engHistory' = Append(engHistory, [timestamp |-> t, price |-> offer.price,
                                       compareAtPrice |-> offer.compareAtPrice])
  /\ UNCHANGED <<call, mvp, appVars, ruleVars>>

\* checkProductCompliance(product, priceHistory) of the rule engine
EngineCheck(product, now) ==
  /\ call = None
  /\ call' = [product |-> product, now |-> now,
              periods |-> IF EngineSkips(product) THEN None
                          ELSE [found |-> findSalesPeriods(engHistory)],
              result |-> EngineCheckProductCompliance(product, engHistory, now)]
  /\ UNCHANGED <<engHistory, mvp, appVars, ruleVars>>

NextRules ==
  \/ \E offer \in Offers, t \in EngInstants : EngineAppend(offer, t)
  \/ \E product \in EngProducts, now \in EngNows : EngineCheck(product, now)

SpecRules == Init /\ [][NextRules]_vars

\* ------------------------------- complianceRules, the earlier revision
\* NorwegianFørprisRule.check: random is the outcome of Math.random() < 0.2
MvpForprisRule(product, random) ==
  IF Falsy(product.compareAtPrice) \/ product.compareAtPrice <= product.price
  THEN [isCompliant |-> TRUE, issues |-> <<>>]
  ELSE IF random
       THEN [isCompliant |-> FALSE,
             issues |-> <<[rule |-> "førpris",
                           message |-> [text |-> "must_be_the_lowest"]]>>]
       ELSE [isCompliant |-> TRUE, issues |-> <<>>]

\* checkCompliance(product, priceHistory = []); mvp keeps the results of
\* the successive calls made with the same product
MvpCheckCompliance(product, random) ==
  /\ mvp' = IF mvp # None /\ mvp.product = product /\ Len(mvp.results) < MaxLen
            THEN [mvp EXCEPT !.results = Append(@, MvpForprisRule(product, random))]
            ELSE [product |-> product, results |-> <<MvpForprisRule(product, random)>>]
  /\ UNCHANGED <<engHistory, call, appVars, ruleVars>>

NextMvp == \E product \in EngProducts, random \in BOOLEAN : MvpCheckCompliance(product, random)

SpecMvp == Init /\ [][NextMvp]_vars

\* ================================================================ claims
\* ---- helpers of the claims
StrictlyAscending(h) ==
  \A i \in 1..(Len(h) - 1) : h[i].timestamp < h[i + 1].timestamp

Inside(t, period) == period.start <= t /\ t <= period.end

PeriodsAround(t, periods) == {k \in 1..Len(periods) : Inside(t, periods[k])}

IssuesOf(is, rule) == {i \in 1..Len(is) : is[i].rule = rule}

ExceptionResult == [success |-> FALSE, error |-> "exception"]

\* C1: for an observation sequence ordered by timestamp the periods
\* returned by findSalesPeriods are pairwise disjoint and ordered by start,
\* every on-sale observation lies inside exactly one of them and every
\* other observation inside none.
C1_SalePeriodsPartition ==
  (call # None /\ call.periods # None /\ StrictlyAscending(engHistory)) =>
    LET periods == call.periods.found
    IN /\ \A i \in 1..Len(periods) : periods[i].start <= periods[i].end
       /\ \A i \in 1..(Len(periods) - 1) : periods[i].end < periods[i + 1].start
       /\ \A i \in 1..Len(engHistory) :
            Cardinality(PeriodsAround(engHistory[i].timestamp, periods)) =
              IF StrictOnSale(engHistory[i]) THEN 1 ELSE 0

\* C2: every evaluation returned by checkProductCompliance and every
\* persisted ProductCompliance record has isCompliant true exactly when it
\* has no issues (stored as null).
C2_CompliantIffNoIssues ==
  /\ \A r \in productCompliance : r.isCompliant <=> (r.issues = None)
  /\ \A p \in Procs :
       (pc[p] = "returned" /\ ret[p].success) =>
         (ret[p].isCompliant <=> (ret[p].issues = <<>>))

\* C2 witness: an evaluation with issues has been persisted and returned
C2_Witness ==
  \E p \in Procs :
    /\ pc[p] = "returned"
    /\ ret[p].success
    /\ ~ret[p].isCompliant
    /\ \E r \in productCompliance : r.variantId = variant[p] /\ r.issues # None

\* C3: on an empty price history the evaluation returns isCompliant = true
\* with no issues and reports no error.
C3_EmptyHistoryCompliant ==
  \A p \in Procs :
    (pc[p] = "returned" /\ priceHistory[variant[p]] = <<>> /\ ret[p] # ExceptionResult) =>
      /\ ret[p].success
      /\ ret[p].isCompliant
      /\ ret[p].issues = <<>>

\* C4: two evaluations in a row of the same product and history give the
\* same verdict and the same issues.
C4_EvaluateIdempotent ==
  (mvp # None /\ Len(mvp.results) >= 2) => mvp.results[2] = mvp.results[1]

\* C5: when the rules have run, the issues collected are those of every
\* rule that is non-compliant on the data the evaluation read: no failing
\* rule hides another.
RuleVerdicts(p) ==
  [forpris |-> checkNorwegianReferencePrice(priceHistory[variant[p]], clock,
                                            cur[p].compareAtPrice).isCompliant,
   duration |-> checkSalesDuration(FindUnique(variant[p]), clock).isCompliant,
   frequency |-> checkSalesFrequency(priceHistory[variant[p]], clock).isCompliant]

C6_SaleStartPreserved ==
  [][\A v \in Variants :
       (/\ FindUnique(v) # None
        /\ FindUnique(v).isOnSale
        /\ \E r \in productCompliance' : r.variantId = v /\ r.isOnSale)
       => \A r \in productCompliance' :
            r.variantId = v => r.saleStartDate = FindUnique(v).saleStartDate]_vars

\* C6 witness: an on-sale evaluation has just rewritten a record whose sale
\* started at an earlier time
C6_Witness ==
  \E p \in Procs :
    /\ pc[p] = "returned"
    /\ ret[p].success
    /\ ret[p].isOnSale
    /\ FindUnique(variant[p]) # None
    /\ FindUnique(variant[p]).saleStartDate # NULL
    /\ FindUnique(variant[p]).saleStartDate < clock

\* C7: with a regular-price observation in the look-back window, the
\* reference-price rule raises no issue when compareAtPrice equals the
\* lowest regular price and exactly one issue when it is lower or higher
\* (stated for windows that hold regular-price observations only).
WindowEntries(h, saleStart) ==
  {i \in 1..Len(h) :
     /\ h[i].timestamp < saleStart
     /\ h[i].timestamp >= saleStart - LookbackDays * TicksPerDay}

RegularWindowPrices(h, saleStart) ==
  {h[i].price : i \in {j \in 1..Len(h) :
     /\ h[j].timestamp < saleStart
     /\ h[j].timestamp >= saleStart - LookbackDays * TicksPerDay
     /\ ~StrictOnSale(h[j])}}

C7_BothDirectionsFlagged ==
  (/\ call # None
   /\ ~EngineSkips(call.product)
   /\ EngineSaleStart(call.product, engHistory) # NULL
   /\ RegularWindowPrices(engHistory, EngineSaleStart(call.product, engHistory)) # {}
   /\ \A i \in WindowEntries(engHistory, EngineSaleStart(call.product, engHistory)) :
        ~StrictOnSale(engHistory[i])) =>
    LET lowest == Min(RegularWindowPrices(engHistory,
                                          EngineSaleStart(call.product, engHistory)))
    IN Cardinality(IssuesOf(call.result.issues, "førpris")) =
         IF call.product.compareAtPrice = lowest THEN 0 ELSE 1

\* C8: the duration rule reports exactly one issue, citing
\* floor(now - saleStart) days and the maximum, iff that floor exceeds the
\* maximum.
C8_DurationFloor ==
  (/\ call # None
   /\ ~EngineSkips(call.product)
   /\ EngineSaleStart(call.product, engHistory) # NULL) =>
    LET durationDays == FloorDays(call.now - EngineSaleStart(call.product, engHistory))
        found == IssuesOf(call.result.issues, "saleDuration")
    IN /\ Cardinality(found) = IF durationDays > EngineMaxDays THEN 1 ELSE 0
       /\ \A i \in found :
            /\ call.result.issues[i].message.days = durationDays
            /\ call.result.issues[i].message.max = EngineMaxDays

\* C9: the frequency rule reports exactly one issue iff some adjacent pair
\* of sale periods has floor((current.start - previous.end) in days) below
\* the minimum, and the issue cites the gap of the first such pair.
FloorGaps(periods) ==
  [i \in 1..(Len(periods) - 1) |-> FloorDays(periods[i + 1].start - periods[i].end)]

C9_FrequencyFloor ==
  (call # None /\ call.periods # None /\ StrictlyAscending(engHistory)) =>
    LET gaps == FloorGaps(call.periods.found)
        k == FirstGapViolation(gaps, EngineMinGapDays, 1)
        found == IssuesOf(call.result.issues, "saleFrequency")
    IN /\ Cardinality(found) = IF k # 0 THEN 1 ELSE 0
       /\ \A i \in found : k # 0 /\ call.result.issues[i].message.days = gaps[k]

\* C10: the saleStartDate of an on-sale evaluation is the timestamp of the
\* first observation of the current sale period of the price history.
CurrentSaleStart(h) ==
  LET periods == SegmentPeriods(h, [i \in 1..Len(h) |-> StrictOnSale(h[i])],
                                1, <<>>, NoPeriod)
  IN periods[Len(periods)].start

C10_SaleStartFromHistory ==
  \A p \in Procs :
    (pc[p] = "returned" /\ ret[p].success /\ ret[p].isOnSale) =>
      FindUnique(variant[p]).saleStartDate = CurrentSaleStart(priceHistory[variant[p]])

\* C11: a history of one observation with compareAtPrice > price yields
\* exactly one sale period, whose start and end are that observation's
\* timestamp.
C11_SingleObservationPeriod ==
  (/\ call # None
   /\ call.periods # None
   /\ Len(engHistory) = 1
   /\ StrictOnSale(engHistory[1])) =>
    call.periods.found = <<[start |-> engHistory[1].timestamp,
                            end |-> engHistory[1].timestamp]>>

\* C12: an observation whose compareAtPrice equals its price is never on
\* sale: the evaluation's isOnSale is false for it, and sale-period
\* detection treats it exactly as an observation without compareAtPrice (it
\* opens no period, extends none and closes an open one).
IsTie(e) == e.compareAtPrice = e.price

Untie(h) ==
  [i \in 1..Len(h) |-> IF IsTie(h[i]) THEN [h[i] EXCEPT !.compareAtPrice = NULL] ELSE h[i]]

LatestIsTie(h) == h # <<>> /\ IsTie(h[Len(h)])

C12_TieNotOnSale ==
  /\ \A p \in Procs :
       (cur[p] # None /\ cur[p].compareAtPrice = cur[p].price) => ~cur[p].isOnSale
  /\ \A p \in Procs :
       (pc[p] = "returned" /\ ret[p].success /\ LatestIsTie(priceHistory[variant[p]])) =>
         /\ ~ret[p].isOnSale
         /\ ~FindUnique(variant[p]).isOnSale
         /\ FindUnique(variant[p]).saleStartDate = NULL
  /\ \A p \in Procs :
       (pc[p] = "findExisting" /\ cur[p].isOnSale /\ AppliesNorwegianRules(shopSettings)) =>
         (IssuesOf(issues[p], "salesFrequency") = {}
            <=> checkSalesFrequency(Untie(priceHistory[variant[p]]), clock).isCompliant)
  /\ \A v \in Variants :
       /\ CheckerPeriods(priceHistory[v]) = CheckerPeriods(Untie(priceHistory[v]))
       /\ findSalesPeriods(priceHistory[v]) = findSalesPeriods(Untie(priceHistory[v]))

\* C12 witness: the rules have run over a history in which a sale was
\* closed by an observation with compareAtPrice = price and then reopened,
\* and the frequency rule reports the two periods
C12_Witness ==
  \E p \in Procs :
    /\ pc[p] = "findExisting"
    /\ IssuesOf(issues[p], "salesFrequency") # {}
    /\ LET h == priceHistory[variant[p]]
       IN /\ Len(h) = 3
          /\ StrictOnSale(h[1])
          /\ IsTie(h[2])
          /\ StrictOnSale(h[3])

\* C13: given observations that are not in ascending order of timestamp,
\* sale-period detection fails instead of returning a segmentation.
Unsorted(h) == \E i \in 1..(Len(h) - 1) : h[i].timestamp > h[i + 1].timestamp

C13_UnsortedRejected ==
  (call # None /\ call.periods # None /\ Unsorted(engHistory)) =>
    "found" \notin DOMAIN call.periods

\* C14: a step taken while a rule is being evaluated, the rule failing or
\* not, leaves the evaluation in progress: the next rule or the upsert
\* follows, never the error return.
RuleStages == {"referencePrice", "duration", "frequency"}

C14_RuleFailureIsolated ==
  [][\A p \in Procs :
       pc[p] \in RuleStages => pc'[p] \in RuleStages \cup {"findExisting"}]_vars

\* C15: the evaluation of a history that holds an observation with a
\* non-positive price fails, and it leaves no ProductCompliance record.
HasNonPositivePrice(h) == \E i \in 1..Len(h) : h[i].price <= 0

C15_NonPositiveRejected ==
  \A p \in Procs :
    (pc[p] = "returned" /\ HasNonPositivePrice(priceHistory[variant[p]])) =>
      /\ ~ret[p].success
      /\ FindUnique(variant[p]) = None

\* C16: after any interleaving of scans and re-checks, overlapping ones
\* included, the ProductCompliance table holds at most one record for each
\* (shop, productId, variantId).
C16_OneRecordPerVariant ==
  \A r1, r2 \in productCompliance : r1.variantId = r2.variantId => r1 = r2

\* C16 witness: two evaluations of the same variant have overlapped and
\* both have upserted: request p polled and evaluated the variant while
\* request q was between its read of the history and its upsert, and the
\* record is the one request q wrote last
C16_Witness ==
  \E p, q \in Procs :
    /\ pc[p] = "returned"
    /\ pc[q] = "returned"
    /\ variant[p] = variant[q]
    /\ ret[p].success
    /\ ret[q].success
    /\ ret[p].isOnSale # ret[q].isOnSale
    /\ ret[p].isOnSale = StrictOnSale(priceHistory[variant[p]][Len(priceHistory[variant[p]])])
    /\ FindUnique(variant[q]) # None
    /\ FindUnique(variant[q]).isOnSale = ret[q].isOnSale

\* C17: the price history of a variant only grows: a poll by
\* trackPricesForShop or trackProductPrice appends exactly one observation,
\* and no step of a tracker or of checkProductCompliance changes or removes
\* an observation already stored.
C17_HistoryAppendOnly ==
  [][/\ \A v \in Variants :
          /\ Len(priceHistory'[v]) >= Len(priceHistory[v])
          /\ Len(priceHistory'[v]) <= Len(priceHistory[v]) + 1
          /\ SubSeq(priceHistory'[v], 1, Len(priceHistory[v])) = priceHistory[v]
     /\ \A p \in Procs :
          (pc[p] = "create" /\ pc'[p] # "create") =>
            Len(priceHistory'[Head(todo[p])]) = Len(priceHistory[Head(todo[p])]) + 1
     /\ (\A p \in Procs : pc[p] # "create") => priceHistory' = priceHistory]_vars

\* C17 witness: a variant polled for the second time has been evaluated,
\* and its history holds both observations
C17_Witness ==
  \E p \in Procs :
    /\ pc[p] = "returned"
    /\ mode[p] \in {"scan", "track"}
    /\ ret[p].success
    /\ Len(priceHistory[variant[p]]) >= 2

\* C18: the reference-price rule takes its lowest price from the
\* observations with saleStart - 30 days <= timestamp < saleStart, the sale
\* start being the one the evaluation keeps or sets: with regular-price
\* observations only in that window, the rule raises no issue exactly when
\* compareAtPrice equals the lowest price of the window, whatever was
\* observed before the window and whenever the evaluation runs (stated for
\* histories whose observations from the sale start on are those of the
\* sale).
EvaluationSaleStart(p) == KeptSaleStart(FindUnique(variant[p]), clock)

SaleSince(h, saleStart) ==
  \A i \in 1..Len(h) : h[i].timestamp >= saleStart => StrictOnSale(h[i])

C18_WindowAtSaleStart ==
  \A p \in Procs :
    (/\ pc[p] = "duration"
     /\ SaleSince(priceHistory[variant[p]], EvaluationSaleStart(p))
     /\ WindowEntries(priceHistory[variant[p]], EvaluationSaleStart(p)) # {}
     /\ \A i \in WindowEntries(priceHistory[variant[p]], EvaluationSaleStart(p)) :
          ~StrictOnSale(priceHistory[variant[p]][i])) =>
      (IssuesOf(issues[p], "førpris") = {}
         <=> cur[p].compareAtPrice =
               Min(RegularWindowPrices(priceHistory[variant[p]], EvaluationSaleStart(p))))

\* C19: observations that were themselves on sale do not count in the
\* lowest price of the reference-price rule: for a given sale start the
\* rule's verdict is the one it gives on the history without its on-sale
\* observations.
RegularOnly(h) == SelectSeq(h, LAMBDA e : ~StrictOnSale(e))

C19_SaleDipsExcluded ==
  (/\ call # None
   /\ ~EngineSkips(call.product)
   /\ call.product.saleStartDate # NULL) =>
    (IssuesOf(call.result.issues, "førpris") = {}
       <=> NorwegianForprisRule(call.product, RegularOnly(engHistory)).isCompliant)

\* C20: when the look-back window read by the reference-price rule holds no
\* observation, or on-sale observations only, the rule raises no issue.
RegularInLookback(h, now) ==
  SelectSeq(FindManySince(h, now - LookbackDays * TicksPerDay),
            LAMBDA e : ~StrictOnSale(e))

C20_NoDataCompliant ==
  \A p \in Procs :
    (pc[p] = "duration" /\ RegularInLookback(priceHistory[variant[p]], clock) = <<>>) =>
      IssuesOf(issues[p], "førpris") = {}

\* C21: a saleStartDate passed with the product is used unchanged; when none
\* is passed, the sale start the rules work with is the start of the sale
\* period that contains the latest observation.
C21_SaleStartDerived ==
  (/\ call # None
   /\ ~EngineSkips(call.product)
   /\ engHistory # <<>>
   /\ StrictlyAscending(engHistory)
   /\ StrictOnSale(engHistory[Len(engHistory)])) =>
    EngineSaleStart(call.product, engHistory) =
      IF call.product.saleStartDate # NULL THEN call.product.saleStartDate
      ELSE CurrentSaleStart(engHistory)

\* requests served one after another in a shop with two offers, with
\* database calls of an evaluation that may reject
NextRejects ==
  \/ RequestStep(1)
  \/ \E offer \in OverlapOffers : CreatePriceHistory(1, offer)
  \/ CheckFails(1)
  \/ EnvStep

SpecRejects == Init /\ [][NextRejects]_vars

\* C22: an evaluation that fails hands success = false to its caller and
\* leaves the ProductCompliance table as it was: the step on which it
\* fails writes nothing, and the only step of an evaluation that ever
\* changes the table is the upsert of an evaluation that succeeds.
C22_FailedEvaluationWritesNothing ==
  [][/\ \A p \in Procs :
          (pc[p] \in CheckStages /\ pc'[p] = "returned" /\ pc[p] # "upsert") =>
            /\ ~ret'[p].success
            /\ productCompliance' = productCompliance
     /\ \A p \in Procs :
          (pc[p] = "upsert" /\ pc'[p] = "returned" /\ ~ret'[p].success) =>
            productCompliance' = productCompliance
     /\ productCompliance' # productCompliance =>
          \E p \in Procs : /\ pc[p] = "upsert"
                           /\ pc'[p] = "returned"
                           /\ ret'[p].success]_vars

\* a failed evaluation has returned while the stored record still describes
\* the previous observation, not the latest one
C22_Witness ==
  /\ pc[1] = "returned"
  /\ ret[1] = ExceptionResult
  /\ Len(priceHistory["v1"]) >= 2
  /\ FindUnique("v1") # None
  /\ FindUnique("v1").isOnSale
  /\ FindUnique("v1").issues # None
  /\ ~StrictOnSale(priceHistory["v1"][Len(priceHistory["v1"])])

\* C23: in every stored ProductCompliance record saleStartDate is null
\* exactly when isOnSale is false.
C23_SaleStartIffOnSale ==
  \A r \in productCompliance : (r.saleStartDate = NULL) <=> ~r.isOnSale

\* a record that was written for a regular observation has been rewritten
\* for a sale while a second evaluation of the variant is in flight
C23_Witness ==
  /\ Len(priceHistory["v1"]) >= 2
  /\ ~StrictOnSale(priceHistory["v1"][1])
  /\ FindUnique("v1") # None
  /\ FindUnique("v1").isOnSale
  /\ FindUnique("v1").saleStartDate = priceHistory["v1"][2].timestamp
  /\ pc[1] = "returned"
  /\ pc[2] \in CheckStages

FailingRules(p) ==
  {r \in {"førpris", "salesDuration", "salesFrequency"} :
     \/ r = "førpris" /\ ~RuleVerdicts(p).forpris
     \/ r = "salesDuration" /\ ~RuleVerdicts(p).duration
     \/ r = "salesFrequency" /\ ~RuleVerdicts(p).frequency}

\* the issues collected by p are those of the failing rules, or none at all
RulesWereApplied(p) ==
  /\ {issues[p][i].rule : i \in 1..Len(issues[p])} = FailingRules(p)
  /\ cur[p].isCompliant = (FailingRules(p) = {})

RulesWereSkipped(p) == issues[p] = <<>> /\ cur[p].isCompliant

ListsNO(settings) == settings # None /\ "NO" \in SeqToSet(settings.countryRules)

\* the rules are applied to an on-sale variant exactly when norwegian holds
CountryDecides(norwegian) ==
  \A p \in Procs :
    /\ (pc[p] = "upsert" /\ cur[p].isOnSale) =>
         IF norwegian THEN RulesWereApplied(p) ELSE RulesWereSkipped(p)
    /\ (pc[p] = "returned" /\ ret[p].success /\ ~norwegian) =>
         /\ ret[p].isCompliant
         /\ FindUnique(variant[p]).isCompliant
         /\ FindUnique(variant[p]).issues = None

\* C25: the Norwegian rules are applied to an on-sale variant exactly when
\* the shop has no settings row, or its countryRules is empty, or its
\* countryRules lists NO; otherwise the evaluation collects no issue and is
\* persisted as compliant with no issues.
C25_RulesIffNorwegianOrUnset ==
  CountryDecides(\/ shopSettings = None
                 \/ shopSettings.countryRules = <<>>
                 \/ ListsNO(shopSettings))

\* C25 as stated: the Norwegian rules are applied to an on-sale variant
\* exactly when countryRules contains NO, NO being assumed when the shop has
\* no settings row.
C25_RulesIffNorwegian ==
  CountryDecides(shopSettings = None \/ ListsNO(shopSettings))

\* an on-sale observation without any regular price behind it, which the
\* reference-price rule rejects, has been persisted as compliant in a shop
\* set to EU
C25_Witness ==
  /\ pc[1] = "returned"
  /\ ret[1].success
  /\ ret[1].isOnSale
  /\ shopSettings # None
  /\ shopSettings.countryRules = <<"EU">>
  /\ ~checkNorwegianReferencePrice(priceHistory["v1"], clock,
                                   cur[1].compareAtPrice).isCompliant
  /\ FindUnique("v1").isCompliant
  /\ FindUnique("v1").issues = None

\* ------------------------------ app.compliance.$productId.$variantId
\* productCompliance?.issues ? JSON.parse(productCompliance.issues) : []
ParseIssues(compliance) ==
  IF compliance = None \/ compliance.issues = None THEN <<>>
  ELSE compliance.issues.json

\* !complianceIssues.some(issue => issue.rule === rule)
NoIssueOf(complianceIssues, rule) ==
  ~\E i \in 1..Len(complianceIssues) : complianceIssues[i].rule = rule

\* the loader of the product detail page; found is whether the platform's
\* response carries the product and its variant
LoadDetail(p, v, found) ==
  /\ pc[p] = "idle"
  /\ variant' = [variant EXCEPT ![p] = v]
  /\ LET complianceIssues == ParseIssues(FindUnique(v))
     IN Returned(p,
          IF ~found THEN [error |-> "Product or variant not found"]
          ELSE [complianceStatus |->
                  [forprisCompliant |-> NoIssueOf(complianceIssues, "førpris"),
                   saleDurationCompliant |-> NoIssueOf(complianceIssues, "saleDuration"),
                   saleFrequencyCompliant |-> NoIssueOf(complianceIssues, "saleFrequency")],
                issues |-> complianceIssues])
  /\ UNCHANGED <<clock, ticks, priceHistory, productCompliance, shopSettings,
                 cur, issues, keep>>
  /\ UNCHANGED <<engVars, ruleVars>>

\* requests served one after another in a shop with two offers, the detail
\* page of the variant being opened between them
NextDetail ==
  \/ RequestStep(1)
  \/ \E offer \in OverlapOffers : CreatePriceHistory(1, offer)
  \/ \E v \in Variants, found \in BOOLEAN : LoadDetail(1, v, found)
  \/ EnvStep

SpecDetail == Init /\ [][NextDetail]_vars

ScanStep(p) ==
  \/ StartScan(p)
  \/ \E offer \in OverlapOffers : CreatePriceHistory(p, offer)
  \/ EvaluationStep(p)
  \/ UpdateLastScan(p)

NextScans ==
  \/ ScanStep(1)
  \/ ScanStep(2)
  \/ EnvStep

SpecScans == Init /\ [][NextScans]_vars

\* h with one more observation at its end
IsAppend(h, longer) ==
  Len(longer) = Len(h) + 1 /\ SubSeq(longer, 1, Len(h)) = h

\* C27: in a scan the evaluation of a variant is entered only by the step
\* that appends the scan's observation of it; observations already stored
\* keep their place; the evaluation takes the last observation of the store
\* as its current state, and the referencePrice and isOnSale it persists are
\* those it took: so they are those of an observation at least as recent as
\* the one the scan appended, whatever another scan does in between.
C27_EvaluationReadsLatest ==
  [][/\ \A v \in Variants :
          priceHistory'[v] = priceHistory[v] \/ IsAppend(priceHistory[v], priceHistory'[v])
     /\ \A p \in Procs :
          /\ (mode[p] = "scan" /\ pc[p] # "findHistory" /\ pc'[p] = "findHistory") =>
               /\ pc[p] = "create"
               /\ IsAppend(priceHistory[variant'[p]], priceHistory'[variant'[p]])
          /\ (pc[p] = "findHistory" /\ pc'[p] # "findHistory") =>
               LET h == priceHistory[variant[p]]
               IN /\ h # <<>>
                  /\ cur'[p].price = h[Len(h)].price
                  /\ cur'[p].compareAtPrice = h[Len(h)].compareAtPrice
                  /\ cur'[p].isOnSale = StrictOnSale(h[Len(h)])
          /\ (pc[p] = "upsert" /\ pc'[p] = "returned") =>
               \E r \in productCompliance' :
                 /\ r.variantId = variant[p]
                 /\ r.referencePrice = cur[p].compareAtPrice
                 /\ r.isOnSale = cur[p].isOnSale]_vars

\* two scans have each appended one observation of the variant, a regular
\* one and then a sale; both evaluations took the sale as current state, so
\* one of them evaluated the other scan's more recent observation
C27_Witness ==
  /\ mode[1] = "scan"
  /\ mode[2] = "scan"
  /\ Len(priceHistory["v1"]) = 2
  /\ ~StrictOnSale(priceHistory["v1"][1])
  /\ StrictOnSale(priceHistory["v1"][2])
  /\ pc[1] = "returned"
  /\ ret[1].success
  /\ ret[1].isOnSale
  /\ pc[2] = "upsert"
  /\ cur[2].isOnSale
  /\ FindUnique("v1").isOnSale
  /\ FindUnique("v1").referencePrice = priceHistory["v1"][2].compareAtPrice

\* what the shop asks for the variants of its catalog: all are on sale
CatalogOffers == {[price |-> 1, compareAtPrice |-> 2]}

\* scans of a catalog of two variants served one after another, with
\* database calls of an evaluation that may reject; a request that has
\* been started is resumed after each of its awaits
ScanProgress(p) ==
  \/ \E offer \in CatalogOffers : CreatePriceHistory(p, offer)
  \/ EvaluationStep(p)
  \/ UpdateLastScan(p)

NextCatalog ==
  \/ StartScanOf(1, CatalogOrder)
  \/ ScanProgress(1)
  \/ CheckFails(1)
  \/ EnvStep

SpecCatalog == Init /\ [][NextCatalog]_vars /\ WF_vars(ScanProgress(1))

\* the observations of variant v appended at the present clock value
AppendedNow(v) ==
  {i \in 1..Len(priceHistory[v]) : priceHistory[v][i].timestamp = clock}

\* C28: a failed evaluation does not stop a scan: the failure leaves the
\* scan's list of variants untouched, the scan resumes with the next variant
\* of the list (or with the lastScan update after the last one), and every
\* scan in which an evaluation has failed goes on to the lastScan update,
\* which it reaches with an observation appended for every variant and
\* completes by recording the present time.
C28_ScanSurvivesFailure ==
  /\ [][\A p \in Procs :
          mode[p] = "scan" =>
            /\ (pc[p] \in CheckStages /\ pc'[p] = "returned") =>
                 todo'[p] = todo[p] /\ mode'[p] = "scan"
            /\ (pc[p] = "returned" /\ pc'[p] # "returned") =>
                 /\ todo'[p] = Tail(todo[p])
                 /\ mode'[p] = "scan"
                 /\ pc'[p] = IF Tail(todo[p]) = <<>> THEN "lastScan" ELSE "create"
            /\ (pc[p] = "lastScan" /\ pc'[p] # "lastScan") =>
                 /\ \A v \in CatalogVariants : AppendedNow(v) # {}
                 /\ shopSettings'.lastScan = clock
                 /\ pc'[p] = "idle"]_vars
  /\ \A p \in {1} :
       (mode[p] = "scan" /\ pc[p] = "returned" /\ ~ret[p].success)
         ~> (pc[p] = "idle" /\ shopSettings # None /\ shopSettings.lastScan = clock)

\* the evaluation of the first variant has failed, and the scan has gone on
\* to append the second variant's observation and to evaluate it
C28_Witness ==
  /\ mode[1] = "scan"
  /\ pc[1] = "returned"
  /\ ret[1].success
  /\ variant[1] = "v2"
  /\ AppendedNow("v1") # {}
  /\ AppendedNow("v2") # {}
  /\ FindUnique("v1") = None
  /\ FindUnique("v2") # None

\* ------------------------------------------------- complianceSettings
\* the rows createMany inserts (countryCode 'NO' in each)
DefaultRules ==
  <<[countryCode |-> "NO", ruleType |-> "førpris"],
    [countryCode |-> "NO", ruleType |-> "salesDuration"],
    [countryCode |-> "NO", ruleType |-> "salesFrequency"]>>

\* initializeDefaultRules up to its first await: findMany where countryCode
\* is 'NO', and the early return when a rule is found
InitializeFind(p) ==
  /\ pc[p] = "idle"
  /\ LET existingRules == SelectSeq(complianceRule, LAMBDA r : r.countryCode = "NO")
     IN IF Len(existingRules) > 0
        THEN Returned(p, [success |-> TRUE, message |-> "Rules already exist"])
        ELSE /\ pc' = [pc EXCEPT ![p] = "createMany"]
             /\ UNCHANGED <<mode, todo, ret>>
  /\ UNCHANGED <<clock, ticks, priceHistory, productCompliance, shopSettings,
                 variant, cur, issues, keep>>
  /\ UNCHANGED <<engVars, ruleVars>>

\* the createMany of the three default rules and the return
InitializeCreate(p) ==
  /\ pc[p] = "createMany"
  /\ complianceRule' = complianceRule \o DefaultRules
  /\ Returned(p, [success |-> TRUE, message |-> "Default rules created"])
  /\ UNCHANGED <<clock, ticks, priceHistory, productCompliance, shopSettings,
                 variant, cur, issues, keep>>
  /\ UNCHANGED engVars

\* two callers of initializeDefaultRules, whose awaits interleave
NextInitialize ==
  \/ \E p \in Procs : InitializeFind(p)
  \/ \E p \in Procs : InitializeCreate(p)
  \/ \E p \in Procs : Resume(p)
  \/ EnvStep

SpecInitialize == Init /\ [][NextInitialize]_vars

\* the rows of the table that hold the rule ruleType
RowsOf(ruleType) ==
  {i \in 1..Len(complianceRule) : complianceRule[i].ruleType = ruleType}

\* C29: whatever calls of initializeDefaultRules have been made, and however
\* they overlapped, the table holds each default rule at most once, and all
\* three of them, each once, as soon as a call has returned.
C29_DefaultRulesOnce ==
  /\ \A i \in 1..Len(DefaultRules) :
       Cardinality(RowsOf(DefaultRules[i].ruleType)) <= 1
  /\ (\E p \in Procs : pc[p] = "returned") =>
       \A i \in 1..Len(DefaultRules) :
         Cardinality(RowsOf(DefaultRules[i].ruleType)) = 1

\* time passes while a request is waiting on one of its awaits
Elapse(d) ==
  /\ ticks < MaxTicks
  /\ \E p \in Procs : pc[p] # "idle"
  /\ clock' = clock + d
  /\ ticks' = ticks + 1
  /\ UNCHANGED <<priceHistory, productCompliance, shopSettings,
                 pc, mode, todo, variant, cur, issues, keep, ret>>
  /\ UNCHANGED <<engVars, ruleVars>>

\* two requests in flight at once, with the clock advancing between their
\* awaits
NextRace ==
  \/ NextOverlap
  \/ Elapse(1)

SpecRace == Init /\ [][NextRace]_vars

\* C30: every upsert of an evaluation leaves a record whose fields all come
\* from that one evaluation, and when the record it rewrites is on sale and
\* the evaluation finds the variant on sale, saleStartDate stays the start
\* recorded by the earlier evaluation, also when evaluations overlap.
C30_OverlapKeepsSaleStart ==
  [][\A p \in Procs :
       (pc[p] = "upsert" /\ pc'[p] = "returned" /\ ret'[p].success) =>
         LET before == FindUnique(variant[p])
             data == IF before = None THEN CreateData(p) ELSE UpdateData(p)
         IN \A r \in productCompliance' :
              r.variantId = variant[p] =>
                /\ r.referencePrice = data.referencePrice
                /\ r.isOnSale = data.isOnSale
                /\ r.isCompliant = data.isCompliant
                /\ r.issues = data.issues
                /\ r.saleStartDate = data.saleStartDate
                /\ (before # None /\ before.isOnSale /\ r.isOnSale) =>
                     r.saleStartDate = before.saleStartDate]_vars

====
